---- MODULE Spec2Model ----
(***************************************************************************)
(* Replicator checkpoint (Replicator/Checkpoint.cc): the set of completed  *)
(* local sequences, the highest sequence checked, the remote sequence      *)
(* marker, their JSON form and the reconciliation with the peer's copy.    *)
(***************************************************************************)
EXTENDS Integers, Sequences, FiniteSets, TLC

\* ------------------------------------------------------------------ bounds
\* Sequence numbers range over 0..MaxSeq.
MaxSeq == 2
\* Integral remote sequences range over 0..MaxRemote.
MaxRemote == 1
\* c4_now()/1000 ranges over 0..MaxTime.
MaxTime == 1

Seqs == 0..MaxSeq
\* Opaque (non-integral) remote sequences; each name stands for the JSON
\* text of the value.
Tokens == {"tokenA", "tokenB"}

Min(a, b) == IF a < b THEN a ELSE b
Max(a, b) == IF a > b THEN a ELSE b

\* ------------------------------------------------------------- SequenceSet
\* A SequenceSet is the ascending sequence of its disjoint, non-touching
\* half-open ranges <<first, end>> (the std::map first -> end of the class).

\* The sequence numbers a set of ranges contains.
Members(rs) == UNION {r[1]..(r[2] - 1) : r \in {rs[i] : i \in DOMAIN rs}}

\* SequenceSet::add(s0, s1): union with [s0, s1), merging every range that
\* overlaps or touches it; nothing when the range is empty.
SequenceSet_add(rs, s0, s1) ==
    IF s1 <= s0 THEN rs
    ELSE LET before == SelectSeq(rs, LAMBDA r : r[2] < s0)
             after  == SelectSeq(rs, LAMBDA r : r[1] > s1)
             mid    == SelectSeq(rs, LAMBDA r : r[2] >= s0 /\ r[1] <= s1)
             lo     == IF mid = <<>> THEN s0 ELSE Min(s0, mid[1][1])
             hi     == IF mid = <<>> THEN s1 ELSE Max(s1, mid[Len(mid)][2])
         IN  before \o <<<<lo, hi>>>> \o after

\* SequenceSet::remove(s): takes the single sequence s out, splitting or
\* shrinking the range that holds it, deleting a range of one element.
SequenceSet_remove(rs, s) ==
    LET before == SelectSeq(rs, LAMBDA r : r[2] <= s)
        after  == SelectSeq(rs, LAMBDA r : r[1] > s)
        mid    == SelectSeq(rs, LAMBDA r : r[1] <= s /\ s < r[2])
    IN  IF mid = <<>> THEN rs
        ELSE LET r     == mid[1]
                 left  == IF r[1] < s THEN <<<<r[1], s>>>> ELSE <<>>
                 right == IF s + 1 < r[2] THEN <<<<s + 1, r[2]>>>> ELSE <<>>
             IN  before \o left \o right \o after

\* SequenceSet::intersection(s1, s2): walks both range lists in step and
\* adds the overlap of the two current ranges.
RECURSIVE SequenceSet_walk(_, _, _, _, _)
SequenceSet_walk(a, b, i, j, acc) ==
    IF i > Len(a) \/ j > Len(b) THEN acc
    ELSE IF a[i][2] <= b[j][1] THEN SequenceSet_walk(a, b, i + 1, j, acc)
    ELSE IF b[j][2] <= a[i][1] THEN SequenceSet_walk(a, b, i, j + 1, acc)
    ELSE LET acc2 == SequenceSet_add(acc, Max(a[i][1], b[j][1]), Min(a[i][2], b[j][2]))
         IN  IF a[i][2] <= b[j][2]
             THEN SequenceSet_walk(a, b, i + 1, j, acc2)
             ELSE SequenceSet_walk(a, b, i, j + 1, acc2)

SequenceSet_intersection(a, b) == SequenceSet_walk(a, b, 1, 1, <<>>)

\* The SequenceSet holding exactly the sequence numbers of S.
RECURSIVE SequenceSet_of(_)
SequenceSet_of(S) ==
    IF S = {} THEN <<>>
    ELSE LET m == CHOOSE x \in S : \A y \in S : y <= x
         IN  SequenceSet_add(SequenceSet_of(S \ {m}), m, m + 1)

\* ---------------------------------------------------------- RemoteSequence
\* variant<uint64_t, alloc_slice>: an integer, or the JSON text of any other
\* value; the null slice is the empty marker.
NoRemote == [isInt |-> FALSE, int |-> 0, str |-> ""]
IntRemote(n) == [isInt |-> TRUE, int |-> n, str |-> ""]
StrRemote(s) == [isInt |-> FALSE, int |-> 0, str |-> s]

\* RemoteSequence::operator bool
RemoteSequence_bool(r) == r.isInt \/ r.str # ""

Markers == {NoRemote} \cup {IntRemote(n) : n \in 0..MaxRemote}
                      \cup {StrRemote(t) : t \in Tokens}

\* ------------------------------------------------------------ Fleece values
Undefined == [type |-> "undefined", int |-> 0, json |-> "", arr |-> <<>>]
IntValue(n) == [type |-> "int", int |-> n, json |-> "", arr |-> <<>>]
StrValue(j) == [type |-> "string", int |-> 0, json |-> j, arr |-> <<>>]
ArrValue(a) == [type |-> "array", int |-> 0, json |-> "", arr |-> a]

\* Value::asInt / Value::asUnsigned: 0 for anything that is not a number.
Value_asInt(v) == IF v.type = "int" THEN v.int ELSE 0
\* Value::asArray: null unless the value is an array.
Value_isArray(v) == v.type = "array"

\* RemoteSequence(Value): an integer stays an integer, anything else is
\* kept as its JSON text, a missing value as the null slice.
RemoteSequence_fromValue(v) ==
    IF v.type = "int" THEN IntRemote(v.int)
    ELSE IF v.type = "string" THEN StrRemote(v.json)
    ELSE NoRemote

\* RemoteSequence::toJSON written raw into the encoder, as the value a
\* parser reads back.
RemoteSequence_toValue(r) ==
    IF r.isInt THEN IntValue(r.int) ELSE StrValue(r.str)

\* --------------------------------------------------------------- Checkpoint
Checkpoint(c, l, r) == [completed |-> c, lastChecked |-> l, remote |-> r]

\* Checkpoint::resetLocal
resetLocal(cp) ==
    [cp EXCEPT !.completed = SequenceSet_add(<<>>, 0, 1), !.lastChecked = 0]

\* Checkpoint::localMinSequence; `ub` is what the read of begin() of an
\* empty map yields when the assertion is compiled out.
localMinSequence(cp, ub) ==
    IF cp.completed = <<>> THEN ub ELSE cp.completed[1][2] - 1

\* The (first, length) pairs toJSON writes for localCompleted.
RECURSIVE rangePairs(_)
rangePairs(rs) ==
    IF rs = <<>> THEN <<>>
    ELSE <<rs[1][1], rs[1][2] - rs[1][1]>> \o rangePairs(Tail(rs))

\* Variant of toJSON: the local key is written whatever minSeq is.
toJSON_localAlways(cp, ub, now) ==
    LET minSeq == localMinSequence(cp, ub)
    IN  [time           |-> IntValue(now),
         local          |-> IntValue(minSeq),
         localCompleted |-> IF Len(cp.completed) > 1
                            THEN ArrValue(rangePairs(cp.completed))
                            ELSE Undefined,
         remote         |-> IF RemoteSequence_bool(cp.remote)
                            THEN RemoteSequence_toValue(cp.remote)
                            ELSE Undefined]

\* Checkpoint::toJSON, as the document a parser reads back.
toJSON(cp, ub, now) ==
    LET minSeq == localMinSequence(cp, ub)
    IN  [time           |-> IntValue(now),
         local          |-> IF minSeq > 0 THEN IntValue(minSeq) ELSE Undefined,
         localCompleted |-> IF Len(cp.completed) > 1
                            THEN ArrValue(rangePairs(cp.completed))
                            ELSE Undefined,
         remote         |-> IF RemoteSequence_bool(cp.remote)
                            THEN RemoteSequence_toValue(cp.remote)
                            ELSE Undefined]

\* Variant of addPairs: the second value of a pair is taken as the range's end.
RECURSIVE addPairs_asEnd(_, _)
addPairs_asEnd(rs, arr) ==
    IF Len(arr) < 2 THEN rs
    ELSE addPairs_asEnd(SequenceSet_add(rs, arr[1], arr[2]), Tail(Tail(arr)))

\* The loop of readDict over the localCompleted array, two values at a time.
RECURSIVE addPairs(_, _)
addPairs(rs, arr) ==
    IF Len(arr) < 2 THEN rs
    ELSE addPairs(SequenceSet_add(rs, arr[1], arr[1] + arr[2]), Tail(Tail(arr)))

\* Variant of readDict: a null root returns before anything is reset.
readDict_nullKeeps(cp, root) ==
    LET fresh == [resetLocal(cp) EXCEPT !.remote = NoRemote]
    IN  IF ~root.present THEN cp
        ELSE LET withRemote == [fresh EXCEPT !.remote = RemoteSequence_fromValue(root.doc.remote)]
             IN  IF Value_isArray(root.doc.localCompleted)
                 THEN [withRemote EXCEPT !.completed =
                          addPairs(fresh.completed, root.doc.localCompleted.arr)]
                 ELSE [withRemote EXCEPT !.completed =
                          SequenceSet_add(fresh.completed, 0,
                                          Value_asInt(root.doc.local) + 1)]

\* Variant of readDict: the legacy range ends at `local`, not after it.
readDict_legacyShort(cp, root) ==
    LET fresh == [resetLocal(cp) EXCEPT !.remote = NoRemote]
    IN  IF ~root.present THEN fresh
        ELSE LET withRemote == [fresh EXCEPT !.remote = RemoteSequence_fromValue(root.doc.remote)]
             IN  IF Value_isArray(root.doc.localCompleted)
                 THEN [withRemote EXCEPT !.completed =
                          addPairs(fresh.completed, root.doc.localCompleted.arr)]
                 ELSE [withRemote EXCEPT !.completed =
                          SequenceSet_add(fresh.completed, 0,
                                          Value_asInt(root.doc.local))]

\* Checkpoint::readDict; a null root has present = FALSE.
readDict(cp, root) ==
    LET fresh == [resetLocal(cp) EXCEPT !.remote = NoRemote]
    IN  IF ~root.present THEN fresh
        ELSE LET withRemote == [fresh EXCEPT !.remote = RemoteSequence_fromValue(root.doc.remote)]
             IN  IF Value_isArray(root.doc.localCompleted)
                 THEN [withRemote EXCEPT !.completed =
                          addPairs(fresh.completed, root.doc.localCompleted.arr)]
                 ELSE [withRemote EXCEPT !.completed =
                          SequenceSet_add(fresh.completed, 0,
                                          Value_asInt(root.doc.local) + 1)]

EmptyDoc == [time |-> Undefined, local |-> Undefined,
             localCompleted |-> Undefined, remote |-> Undefined]
\* The inputs of readJSON: a null slice, bytes that do not parse, a document.
NullSlice == [kind |-> "null", doc |-> EmptyDoc]
Unparseable == [kind |-> "unparseable", doc |-> EmptyDoc]
JSONOf(d) == [kind |-> "json", doc |-> d]

\* Checkpoint::readJSON: no root for a null slice or for a parse failure.
readJSON(cp, json) ==
    readDict(cp, [present |-> json.kind = "json", doc |-> json.doc])

\* Variant of completedClause: on a mismatch the peer's set is taken over.
completedClause_takesPeer(cp, p) ==
    IF cp.completed # p.completed
    THEN [completed |-> p.completed, match |-> FALSE]
    ELSE [completed |-> cp.completed, match |-> TRUE]

\* Variant of completedClause: the block is entered whatever the two sets are.
completedClause_unguarded(cp, p) ==
    [completed |-> SequenceSet_intersection(cp.completed, p.completed),
     match     |-> FALSE]

\* Checkpoint::validateWith, first block: the completed sets.
completedClause(cp, p) ==
    IF cp.completed # p.completed
    THEN [completed |-> SequenceSet_intersection(cp.completed, p.completed),
          match     |-> FALSE]
    ELSE [completed |-> cp.completed, match |-> TRUE]

\* Variant of remoteClause: an empty local marker is compared as well.
remoteClause_unguarded(cp, p) ==
    IF cp.remote # p.remote
    THEN IF cp.remote.isInt /\ p.remote.isInt
         THEN IF cp.remote.int > p.remote.int
              THEN [remote |-> p.remote, match |-> FALSE]
              ELSE [remote |-> cp.remote, match |-> TRUE]
         ELSE [remote |-> NoRemote, match |-> FALSE]
    ELSE [remote |-> cp.remote, match |-> TRUE]

\* Variant of remoteClause: the integer comparison is reversed.
remoteClause_reversed(cp, p) ==
    IF RemoteSequence_bool(cp.remote) /\ cp.remote # p.remote
    THEN IF cp.remote.isInt /\ p.remote.isInt
         THEN IF cp.remote.int < p.remote.int
              THEN [remote |-> p.remote, match |-> FALSE]
              ELSE [remote |-> cp.remote, match |-> TRUE]
         ELSE [remote |-> NoRemote, match |-> FALSE]
    ELSE [remote |-> cp.remote, match |-> TRUE]

\* Variant of remoteClause: any integer mismatch takes over the peer's value.
remoteClause_adoptsPeer(cp, p) ==
    IF RemoteSequence_bool(cp.remote) /\ cp.remote # p.remote
    THEN IF cp.remote.isInt /\ p.remote.isInt
         THEN [remote |-> p.remote, match |-> FALSE]
         ELSE [remote |-> NoRemote, match |-> FALSE]
    ELSE [remote |-> cp.remote, match |-> TRUE]

\* Variant of remoteClause: an older local integer also counts as a mismatch.
remoteClause_olderMismatch(cp, p) ==
    IF RemoteSequence_bool(cp.remote) /\ cp.remote # p.remote
    THEN IF cp.remote.isInt /\ p.remote.isInt
         THEN IF cp.remote.int > p.remote.int
              THEN [remote |-> p.remote, match |-> FALSE]
              ELSE [remote |-> cp.remote, match |-> FALSE]
         ELSE [remote |-> NoRemote, match |-> FALSE]
    ELSE [remote |-> cp.remote, match |-> TRUE]

\* Variant of remoteClause: a non-numeric mismatch takes over the peer's value.
remoteClause_tokenAdoptsPeer(cp, p) ==
    IF RemoteSequence_bool(cp.remote) /\ cp.remote # p.remote
    THEN IF cp.remote.isInt /\ p.remote.isInt
         THEN IF cp.remote.int > p.remote.int
              THEN [remote |-> p.remote, match |-> FALSE]
              ELSE [remote |-> cp.remote, match |-> TRUE]
         ELSE [remote |-> p.remote, match |-> FALSE]
    ELSE [remote |-> cp.remote, match |-> TRUE]

\* Checkpoint::validateWith, second block: the remote sequences.
remoteClause(cp, p) ==
    IF RemoteSequence_bool(cp.remote) /\ cp.remote # p.remote
    THEN IF cp.remote.isInt /\ p.remote.isInt
         THEN IF cp.remote.int > p.remote.int
              THEN [remote |-> p.remote, match |-> FALSE]
              ELSE [remote |-> cp.remote, match |-> TRUE]
         ELSE [remote |-> NoRemote, match |-> FALSE]
    ELSE [remote |-> cp.remote, match |-> TRUE]

\* Variant of validateWith: a mismatch also resets _lastChecked.
validateWith_resetsChecked(cp, p) ==
    LET c == completedClause(cp, p)
        r == remoteClause(cp, p)
        m == c.match /\ r.match
    IN  [cp    |-> [cp EXCEPT !.completed = c.completed, !.remote = r.remote,
                              !.lastChecked = IF m THEN cp.lastChecked ELSE 0],
         match |-> m]

\* Variant of validateWith: the remote block does not reach the result.
validateWith_completedOnly(cp, p) ==
    LET c == completedClause(cp, p)
        r == remoteClause(cp, p)
    IN  [cp    |-> [cp EXCEPT !.completed = c.completed, !.remote = r.remote],
         match |-> c.match]

\* Checkpoint::validateWith: the checkpoint afterwards and the value returned.
validateWith(cp, p) ==
    LET c == completedClause(cp, p)
        r == remoteClause(cp, p)
    IN  [cp    |-> [cp EXCEPT !.completed = c.completed, !.remote = r.remote],
         match |-> c.match /\ r.match]

\* Variant of addPendingSequence: the sequence stays in _completed.
addPendingSequence_keeps(cp, s) ==
    [cp EXCEPT !.lastChecked = Max(cp.lastChecked, s)]

\* Variant of addPendingSequence: _lastChecked is assigned, not maximised.
addPendingSequence_assigns(cp, s) ==
    [cp EXCEPT !.lastChecked = s,
               !.completed = SequenceSet_remove(cp.completed, s)]

\* Checkpoint::addPendingSequence
addPendingSequence(cp, s) ==
    [cp EXCEPT !.lastChecked = Max(cp.lastChecked, s),
               !.completed = SequenceSet_remove(cp.completed, s)]

\* Checkpoint::completedSequence: the caller's confirmation of s.
completedSequence(cp, s) ==
    [cp EXCEPT !.completed = SequenceSet_add(cp.completed, s, s + 1)]

\* Variant of setRemoteMinSequence: the comparison with _remote is left out.
setRemoteMinSequence_unguarded(cp, s) ==
    [cp |-> [cp EXCEPT !.remote = s], changed |-> TRUE]

\* Checkpoint::setRemoteMinSequence
setRemoteMinSequence(cp, s) ==
    IF s = cp.remote THEN [cp |-> cp, changed |-> FALSE]
    ELSE [cp |-> [cp EXCEPT !.remote = s], changed |-> TRUE]

\* The loop of pendingSequenceCount: the gaps before each range, `end`
\* starting at 0.
RECURSIVE gapCount(_, _)
gapCount(rs, end) ==
    IF rs = <<>> THEN 0
    ELSE (rs[1][1] - end) + gapCount(Tail(rs), rs[1][2])

\* Checkpoint::pendingSequenceCount. With no range `end` stays 0 and the
\* unsigned end - 1 is the largest sequence number, which no _lastChecked
\* exceeds.
pendingSequenceCount(cp) ==
    LET rs  == cp.completed
        end == IF rs = <<>> THEN 0 ELSE rs[Len(rs)][2]
    IN  gapCount(rs, 0)
        + (IF end > 0 /\ cp.lastChecked > end - 1
           THEN cp.lastChecked - (end - 1) ELSE 0)

\* ------------------------------------------------------------ state machine
VARIABLES
    completed,    \* _completed of the local checkpoint
    lastChecked,  \* _lastChecked
    remote,       \* _remote
    aborted,      \* the assertion of localMinSequence has failed
    op,           \* the last operation called
    pre,          \* the local checkpoint before that call
    ret,          \* the value the call returned (bool results)
    peer,         \* the argument of the last validateWith
    again,        \* that validateWith repeated the call before it, same peer
    seqArg,       \* the argument of the last addPendingSequence / completedSequence
    json,         \* the argument of the last readJSON
    saved,        \* the last readJSON read the document toJSON had just written
    out,          \* the document the last toJSON wrote
    count,        \* the value the last pendingSequenceCount returned
    markerArg     \* the argument of the last setRemoteMinSequence

vars == <<completed, lastChecked, remote, aborted, op, pre, ret, peer, again,
          seqArg, json, saved, out, count, markerArg>>

Self == Checkpoint(completed, lastChecked, remote)

\* The peer's checkpoint is one read from the peer's document.
PeerCheckpoints ==
    {Checkpoint(SequenceSet_of(S \cup {0}), 0, m) : S \in SUBSET Seqs, m \in Markers}

\* Documents of the legacy form, as older versions and other peers store them.
LegacyDocs ==
    {[EmptyDoc EXCEPT !.local = l, !.remote = r] :
        l \in {Undefined} \cup {IntValue(n) : n \in Seqs},
        r \in {Undefined} \cup {RemoteSequence_toValue(m) : m \in Markers \ {NoRemote}}}

NoPeer == Checkpoint(SequenceSet_add(<<>>, 0, 1), 0, NoRemote)

Init ==
    /\ completed = resetLocal(Checkpoint(<<>>, 0, NoRemote)).completed
    /\ lastChecked = 0
    /\ remote = NoRemote
    /\ aborted = FALSE
    /\ op = "construct"
    /\ pre = Checkpoint(<<>>, 0, NoRemote)
    /\ ret = TRUE
    /\ peer = NoPeer
    /\ again = FALSE
    /\ seqArg = 0
    /\ json = NullSlice
    /\ saved = FALSE
    /\ out = EmptyDoc
    /\ count = 0
    /\ markerArg = NoRemote

\* The effect of one call on the local checkpoint and on the record of it.
Called(name, cp, r) ==
    /\ completed' = cp.completed
    /\ lastChecked' = cp.lastChecked
    /\ remote' = cp.remote
    /\ op' = name
    /\ pre' = Self
    /\ ret' = r

ResetLocal ==
    /\ ~aborted
    /\ count' = 0 /\ markerArg' = NoRemote
    /\ Called("resetLocal", resetLocal(Self), TRUE)
    /\ peer' = NoPeer /\ again' = FALSE /\ seqArg' = 0 /\ json' = NullSlice
    /\ saved' = FALSE /\ out' = EmptyDoc
    /\ UNCHANGED aborted

AddPendingSequence(s) ==
    /\ ~aborted
    /\ count' = 0 /\ markerArg' = NoRemote
    /\ Called("addPendingSequence", addPendingSequence(Self, s), TRUE)
    /\ seqArg' = s
    /\ peer' = NoPeer /\ again' = FALSE /\ json' = NullSlice
    /\ saved' = FALSE /\ out' = EmptyDoc
    /\ UNCHANGED aborted

CompletedSequence(s) ==
    /\ ~aborted
    /\ count' = 0 /\ markerArg' = NoRemote
    /\ Called("completedSequence", completedSequence(Self, s), TRUE)
    /\ seqArg' = s
    /\ peer' = NoPeer /\ again' = FALSE /\ json' = NullSlice
    /\ saved' = FALSE /\ out' = EmptyDoc
    /\ UNCHANGED aborted

SetRemoteMinSequence(m) ==
    /\ ~aborted
    /\ count' = 0 /\ markerArg' = m
    /\ LET r == setRemoteMinSequence(Self, m)
       IN  Called("setRemoteMinSequence", r.cp, r.changed)
    /\ peer' = NoPeer /\ again' = FALSE /\ seqArg' = 0 /\ json' = NullSlice
    /\ saved' = FALSE /\ out' = EmptyDoc
    /\ UNCHANGED aborted

ValidateWith(p) ==
    /\ ~aborted
    /\ count' = 0 /\ markerArg' = NoRemote
    /\ LET r == validateWith(Self, p)
       IN  Called("validateWith", r.cp, r.match)
    /\ peer' = p
    /\ again' = (op = "validateWith" /\ peer = p)
    /\ seqArg' = 0 /\ json' = NullSlice /\ saved' = FALSE /\ out' = EmptyDoc
    /\ UNCHANGED aborted

PendingSequenceCount ==
    /\ ~aborted
    /\ Called("pendingSequenceCount", Self, TRUE)
    /\ count' = pendingSequenceCount(Self)
    /\ markerArg' = NoRemote
    /\ peer' = NoPeer /\ again' = FALSE /\ seqArg' = 0 /\ json' = NullSlice
    /\ saved' = FALSE /\ out' = EmptyDoc
    /\ UNCHANGED aborted

\* toJSON of a checkpoint whose completed set is empty: the assertion of
\* localMinSequence aborts the process, or, compiled out, the read of
\* begin() gives any value.
ToJSON(now, ub) ==
    /\ ~aborted
    /\ count' = 0 /\ markerArg' = NoRemote
    /\ \/ /\ completed # <<>>
          /\ ub = 0
          /\ out' = toJSON(Self, 0, now)
          /\ aborted' = FALSE
       \/ /\ completed = <<>>
          /\ out' = toJSON(Self, ub, now)
          /\ aborted' = FALSE
       \/ /\ completed = <<>>
          /\ ub = 0
          /\ out' = EmptyDoc
          /\ aborted' = TRUE
    /\ Called("toJSON", Self, TRUE)
    /\ peer' = NoPeer /\ again' = FALSE /\ seqArg' = 0 /\ json' = NullSlice
    /\ saved' = FALSE

ReadJSON(j, s) ==
    /\ ~aborted
    /\ count' = 0 /\ markerArg' = NoRemote
    /\ s => (op = "toJSON" /\ j = JSONOf(out))
    /\ Called("readJSON", readJSON(Self, j), TRUE)
    /\ json' = j
    /\ saved' = s
    /\ peer' = NoPeer /\ again' = FALSE /\ seqArg' = 0 /\ out' = EmptyDoc
    /\ UNCHANGED aborted

Next ==
    \/ ResetLocal
    \/ \E s \in Seqs : AddPendingSequence(s)
    \/ \E s \in Seqs : CompletedSequence(s)
    \/ \E m \in Markers : SetRemoteMinSequence(m)
    \/ \E p \in PeerCheckpoints : ValidateWith(p)
    \/ PendingSequenceCount
    \/ \E now \in 0..MaxTime, ub \in Seqs : ToJSON(now, ub)
    \/ \E j \in {NullSlice, Unparseable} \cup {JSONOf(d) : d \in LegacyDocs} :
          ReadJSON(j, FALSE)
    \/ ReadJSON(JSONOf(out), TRUE)

Spec == Init /\ [][Next]_vars

\* Documents of the sparse form: a localCompleted array of up to two
\* (first, length) pairs in any order, overlapping or empty, with or without
\* a local field.
SparsePairs ==
    {p \in Seqs \X (0..(MaxSeq + 1)) : p[1] + p[2] <= MaxSeq + 1}

SparseArrays ==
    {<<>>} \cup SparsePairs \cup {p \o q : p \in SparsePairs, q \in SparsePairs}

SparseDocs ==
    {[EmptyDoc EXCEPT !.localCompleted = ArrValue(a), !.local = l] :
        a \in SparseArrays, l \in {Undefined, IntValue(MaxSeq)}}

\* readJSON applied to every sparse document, one after the other.
NextJSON == \E d \in SparseDocs : ReadJSON(JSONOf(d), FALSE)

SpecJSON == Init /\ [][NextJSON]_vars

\* ------------------------------------------------------------------ claims
Validated == op = "validateWith"
BothInt == pre.remote.isInt /\ peer.remote.isInt
Unchanged == completed = pre.completed /\ remote = pre.remote

\* C1: after validateWith(peer) the local completed set holds exactly the
\* sequences that were in the local set before and are in peer.completed, and
\* the call returns false whenever the two sets differed.
C1_Intersection ==
    Validated =>
        /\ Members(completed) = Members(pre.completed) \cap Members(peer.completed)
        /\ (pre.completed # peer.completed => ret = FALSE)

\* A call that narrowed the local set below both the local and the peer's set.
C1_Witness ==
    /\ Validated /\ ret = FALSE
    /\ Members(completed) # Members(pre.completed)
    /\ Members(completed) # Members(peer.completed)
    /\ Members(completed) = Members(pre.completed) \cap Members(peer.completed)

\* C2 as stated: validateWith returns true exactly when neither completed nor
\* remote changed.
C2_TrueIffUnchanged == Validated => (ret <=> Unchanged)

\* C2 amended: a true result means nothing changed; a false result without
\* any change happens only when the completed sets differ and the local set
\* is contained in the peer's.
C2_TrueImpliesUnchanged ==
    Validated =>
        /\ (ret => Unchanged)
        /\ ((~ret /\ Unchanged) =>
               /\ pre.completed # peer.completed
               /\ Members(pre.completed) \subseteq Members(peer.completed))

\* A call that returned false and changed nothing.
C2_Witness ==
    /\ Validated /\ ret = FALSE /\ Unchanged
    /\ pre.completed # peer.completed

\* C3 as stated: a validateWith that repeats the previous validateWith with
\* the same peer returns true and changes nothing.
C3_SecondCallMatches ==
    [][(Validated /\ op' = "validateWith" /\ peer' = peer) =>
          (ret' = TRUE /\ completed' = completed /\ remote' = remote)]_vars

\* C3 amended: the repeated call changes nothing, and it returns true exactly
\* when the local completed set left by the first call equals peer.completed.
C3_SecondCallStable ==
    [][(Validated /\ op' = "validateWith" /\ peer' = peer) =>
          /\ completed' = completed /\ remote' = remote
          /\ lastChecked' = lastChecked
          /\ (ret' <=> completed = peer.completed)
          /\ (ret => ret')]_vars

\* A repeated call that returned false again.
C3_Witness ==
    /\ Validated /\ again /\ ret = FALSE
    /\ Unchanged /\ completed # peer.completed

\* C4: reading back the document toJSON has just written gives the
\* completed set, the remote marker and the localMinSequence() serialized.
C4_RoundTrip ==
    (op = "readJSON" /\ saved) =>
        /\ completed = pre.completed
        /\ remote = pre.remote
        /\ pre.completed # <<>>
        /\ localMinSequence(Self, 0) = localMinSequence(pre, 0)

\* C5: the completed set is never empty, so the assertion of
\* localMinSequence never fails.
C5_CompletedNonEmpty == completed # <<>> /\ ~aborted

\* C6: both markers integers and the local one greater: the local marker
\* becomes the peer's and validateWith returns false.
C6_RollsBack ==
    (Validated /\ BothInt /\ pre.remote.int > peer.remote.int) =>
        (remote = peer.remote /\ ret = FALSE)

\* A call with a newer local integer that took the peer's.
C6_Witness ==
    /\ Validated /\ BothInt /\ pre.remote.int > peer.remote.int
    /\ remote = peer.remote /\ remote # pre.remote /\ ret = FALSE

\* C7: both markers integers and the local one less or equal: the local
\* marker stays, and with equal completed sets validateWith returns true.
C7_KeepsOlder ==
    (Validated /\ BothInt /\ pre.remote.int <= peer.remote.int) =>
        /\ remote = pre.remote
        /\ (pre.completed = peer.completed => ret = TRUE)

\* A call with a strictly older local integer and equal sets that returned true.
C7_Witness ==
    /\ Validated /\ BothInt /\ pre.remote.int < peer.remote.int
    /\ pre.completed = peer.completed
    /\ remote = pre.remote /\ ret = TRUE

\* C8: a non-empty local marker that differs from the peer's, one of the two
\* not an integer: the local marker becomes empty and validateWith returns
\* false.
C8_ResetsOpaque ==
    (Validated /\ RemoteSequence_bool(pre.remote) /\ pre.remote # peer.remote
               /\ ~BothInt) =>
        (remote = NoRemote /\ ret = FALSE)

\* A call with two different tokens that emptied the local marker.
C8_Witness ==
    /\ Validated /\ ~pre.remote.isInt /\ ~peer.remote.isInt
    /\ RemoteSequence_bool(pre.remote) /\ RemoteSequence_bool(peer.remote)
    /\ pre.remote # peer.remote
    /\ remote = NoRemote /\ ret = FALSE

\* C9: with equal completed sets and equal remote markers validateWith
\* returns true and leaves completed, remote and lastChecked as they were.
C9_MatchChangesNothing ==
    (Validated /\ pre.completed = peer.completed /\ pre.remote = peer.remote) =>
        (ret = TRUE /\ Unchanged /\ lastChecked = pre.lastChecked)

\* A matching call on a checkpoint with several ranges, a marker and a
\* lastChecked of its own.
C9_Witness ==
    /\ Validated /\ pre.completed = peer.completed /\ pre.remote = peer.remote
    /\ Len(pre.completed) > 1 /\ RemoteSequence_bool(pre.remote)
    /\ pre.lastChecked > 0
    /\ ret = TRUE /\ Self = pre

\* C10 as stated: no operation makes lastChecked smaller.
C10_NeverDecreases == [][lastChecked' >= lastChecked]_vars

\* C10 amended: resetLocal and readJSON set lastChecked to 0; every other
\* operation leaves it at least as large as it was.
C10_DecreasesOnlyOnReset ==
    [][IF op' \in {"resetLocal", "readJSON"}
       THEN lastChecked' = 0
       ELSE lastChecked' >= lastChecked]_vars

\* addPendingSequence of an older sequence after a newer one: lastChecked kept.
C10_Witness ==
    /\ op = "addPendingSequence" /\ seqArg < pre.lastChecked
    /\ lastChecked = pre.lastChecked

\* The highest sequence checked or confirmed.
HighestKnown(cp) ==
    IF cp.completed = <<>> THEN cp.lastChecked
    ELSE Max(cp.lastChecked, cp.completed[Len(cp.completed)][2] - 1)

\* C11: pendingSequenceCount() is the number of sequences from 0 up to the
\* highest sequence checked or confirmed that are not in completed.
C11_CountsUnconfirmed ==
    op = "pendingSequenceCount" =>
        count = Cardinality((0..HighestKnown(Self)) \ Members(completed))

\* C12: setRemoteMinSequence(marker) returns false and changes nothing when
\* marker is the current remote, otherwise makes marker the remote and returns
\* true; completed and lastChecked stay, so it returns true exactly when the
\* checkpoint changed.
C12_SetRemote ==
    op = "setRemoteMinSequence" =>
        /\ (markerArg = pre.remote => (ret = FALSE /\ Self = pre))
        /\ (markerArg # pre.remote => (ret = TRUE /\ remote = markerArg))
        /\ completed = pre.completed /\ lastChecked = pre.lastChecked
        /\ (ret <=> Self # pre)

\* A call with the marker already held, on a checkpoint that holds one.
C12_Witness ==
    /\ op = "setRemoteMinSequence" /\ markerArg = pre.remote
    /\ RemoteSequence_bool(markerArg) /\ ret = FALSE /\ Self = pre

\* C13: readJSON of a null slice or of bytes that do not parse leaves a
\* brand-new checkpoint, whatever the checkpoint held: completed = {[0,1)},
\* lastChecked = 0, no remote, localMinSequence() = 0.
C13_MalformedIsFresh ==
    (op = "readJSON" /\ json.kind \in {"null", "unparseable"}) =>
        /\ completed = <<<<0, 1>>>>
        /\ lastChecked = 0
        /\ remote = NoRemote
        /\ localMinSequence(Self, 0) = 0
        /\ ~aborted

\* Unparseable bytes read into a checkpoint that held other ranges, a
\* lastChecked and a remote.
C13_Witness ==
    /\ op = "readJSON" /\ json.kind = "unparseable"
    /\ pre.completed # <<<<0, 1>>>> /\ pre.lastChecked > 0
    /\ RemoteSequence_bool(pre.remote)
    /\ Self = Checkpoint(<<<<0, 1>>>>, 0, NoRemote)

\* C14: a document without a localCompleted array gives the single range
\* [0, local + 1), a missing local counting as 0, so localMinSequence() is
\* local.
C14_Legacy ==
    (op = "readJSON" /\ json.kind = "json"
                     /\ json.doc.localCompleted.type # "array") =>
        LET local == IF json.doc.local.type = "int" THEN json.doc.local.int ELSE 0
        IN  /\ completed = <<<<0, local + 1>>>>
            /\ Members(completed) = 0..local
            /\ localMinSequence(Self, 0) = local

\* A legacy document with local = MaxSeq read into a checkpoint.
C14_Witness ==
    /\ op = "readJSON" /\ json.kind = "json" /\ ~saved
    /\ json.doc.localCompleted.type = "undefined"
    /\ json.doc.local = IntValue(MaxSeq)
    /\ completed = <<<<0, MaxSeq + 1>>>>

\* The sequences the (first, length) pairs of an array cover.
PairMembers(arr) ==
    UNION {arr[2 * i - 1]..(arr[2 * i - 1] + arr[2 * i] - 1) : i \in 1..(Len(arr) \div 2)}

\* C15: a document with a localCompleted array gives the sentinel range
\* [0,1) together with [first, first + length) of every pair of the array;
\* the local field plays no part.
C15_Sparse ==
    (op = "readJSON" /\ json.kind = "json"
                     /\ json.doc.localCompleted.type = "array") =>
        /\ Members(completed) = {0} \cup PairMembers(json.doc.localCompleted.arr)
        /\ \A i \in 1..Len(completed) : completed[i][1] < completed[i][2]
        /\ \A i \in 1..(Len(completed) - 1) : completed[i][2] < completed[i + 1][1]

\* The array [0,1,MaxSeq,1] with a local field of MaxSeq: two ranges, the
\* local field ignored.
C15_Witness ==
    /\ op = "readJSON" /\ json.kind = "json"
    /\ json.doc.localCompleted = ArrValue(<<0, 1, MaxSeq, 1>>)
    /\ json.doc.local = IntValue(MaxSeq)
    /\ completed = <<<<0, 1>>, <<MaxSeq, MaxSeq + 1>>>>

C17_UnbrokenRun ==
    /\ completed # <<>>
    /\ LET minSeq == localMinSequence(Self, 0)
       IN  /\ (0..minSeq) \subseteq Members(completed)
           /\ (minSeq + 1) \notin Members(completed)
           /\ (op = "addPendingSequence" => seqArg > minSeq)

\* C18: addPendingSequence(seq) makes lastChecked the greater of its old
\* value and seq, takes exactly seq out of completed and leaves remote.
C18_AddPending ==
    op = "addPendingSequence" =>
        /\ lastChecked = Max(pre.lastChecked, seqArg)
        /\ lastChecked >= seqArg
        /\ seqArg \notin Members(completed)
        /\ Members(completed) = Members(pre.completed) \ {seqArg}
        /\ remote = pre.remote

\* A sequence inside a range taken out, splitting the range, with lastChecked
\* already above it.
C18_Witness ==
    /\ op = "addPendingSequence"
    /\ seqArg \in Members(pre.completed)
    /\ Len(completed) = Len(pre.completed) + 1
    /\ pre.lastChecked > seqArg /\ lastChecked = pre.lastChecked

\* C19: with an empty local remote marker validateWith leaves it empty
\* whatever the peer's marker is, and returns true exactly when the two
\* completed sets were equal.
C19_EmptyLocalRemote ==
    (Validated /\ ~RemoteSequence_bool(pre.remote)) =>
        /\ remote = NoRemote
        /\ (ret <=> pre.completed = peer.completed)

\* An empty local marker against a peer that has one, the sets equal.
C19_Witness ==
    /\ Validated /\ pre.remote = NoRemote
    /\ RemoteSequence_bool(peer.remote)
    /\ pre.completed = peer.completed
    /\ remote = NoRemote /\ ret = TRUE

\* C20: validateWith leaves lastChecked alone; the local remote marker
\* afterwards is its old value, the peer's or empty, and the local completed
\* set only loses sequences.
C20_Frame ==
    Validated =>
        /\ lastChecked = pre.lastChecked
        /\ remote \in {pre.remote, peer.remote, NoRemote}
        /\ Members(completed) \subseteq Members(pre.completed)

\* Both blocks acted on a checkpoint whose lastChecked is not 0.
C20_Witness ==
    /\ Validated /\ pre.lastChecked > 0 /\ lastChecked = pre.lastChecked
    /\ completed # pre.completed /\ remote # pre.remote
    /\ ret = FALSE

====
